---- MODULE Spec2Model ----
(***************************************************************************)
(* Model of the agent tools of src/src/tools.ts: the trip planner          *)
(* (planTrip), the map-link builder (generateMapLinks) and the tools that  *)
(* call the agent's scheduler and the mail service.                        *)
(*                                                                         *)
(* A text is a sequence of characters; a character is a one-character      *)
(* string; the characters of the templates outside ASCII carry a name,     *)
(* "EMDASH" (U+2014), "EACUTE" (U+00E9), "RSQUO" (U+2019) and "BULLET"      *)
(* (U+2022). Texts are well-formed strings (no lone surrogate).            *)
(***************************************************************************)
EXTENDS Integers, Sequences, FiniteSets, TLC

(***************************************************************************)
(* Bounds of the model.                                                    *)
(***************************************************************************)
\* Dates range over the days 1970-01-01 .. 1970-01-(1+MaxDay).
MaxDay == 4
\* Start dates range over 1970-01-01 .. 1970-01-(1+MaxStartDay).
MaxStartDay == 1
\* A hand-written itinerary is a concatenation of at most MaxFrags fragments.
MaxFrags == 2

(***************************************************************************)
(* Characters and the character classes of JavaScript regular expressions. *)
(***************************************************************************)
UpperAZ == <<"A", "B", "C", "D", "E", "F", "G", "H", "I", "J", "K", "L", "M", "N", "O", "P", "Q", "R", "S", "T", "U", "V", "W", "X", "Y", "Z">>
LowerAZ == <<"a", "b", "c", "d", "e", "f", "g", "h", "i", "j", "k", "l", "m", "n", "o", "p", "q", "r", "s", "t", "u", "v", "w", "x", "y", "z">>
Digit == {"0", "1", "2", "3", "4", "5", "6", "7", "8", "9"}
Range(s) == {s[i] : i \in DOMAIN s}
UpperSet == Range(UpperAZ)
LowerSet == Range(LowerAZ)
Letter == UpperSet \cup LowerSet
\* \w
WordChar == Letter \cup Digit \cup {"_"}
\* \s, and the characters String.prototype.trim removes
WhiteSpace == {" ", "\n", "\t", "\r"}
\* [\w'&\- ]
PhraseChar == WordChar \cup {"'", "&", "-", " "}

SetMin(S) == CHOOSE x \in S : \A y \in S : x <= y

IndexIn(s, c) == CHOOSE i \in DOMAIN s : s[i] = c
\* String.prototype.toLowerCase, one character
LowerCh(c) == IF c \in UpperSet THEN LowerAZ[IndexIn(UpperAZ, c)] ELSE c
\* The destination looked up as typed; C3_RegionCitiesInOrder does not hold
\* of it.
ToLowerCaseOmitted(s) == s
ToLowerCase(s) == [i \in 1..Len(s) |-> LowerCh(s[i])]

RECURSIVE SkipWsForward(_, _)
SkipWsForward(s, i) ==
    IF i > Len(s) \/ s[i] \notin WhiteSpace THEN i ELSE SkipWsForward(s, i + 1)
RECURSIVE SkipWsBackward(_, _)
SkipWsBackward(s, i) ==
    IF i < 1 \/ s[i] \notin WhiteSpace THEN i ELSE SkipWsBackward(s, i - 1)
\* String.prototype.trim
Trim(s) == SubSeq(s, SkipWsForward(s, 1), SkipWsBackward(s, Len(s)))

\* Array.prototype.join
RECURSIVE Join(_, _)
Join(parts, sep) ==
    IF Len(parts) = 0 THEN <<>>
    ELSE IF Len(parts) = 1 THEN parts[1]
    ELSE parts[1] \o sep \o Join(Tail(parts), sep)

\* Number to string, for a non-negative integer
DigitCh(d) == <<"0", "1", "2", "3", "4", "5", "6", "7", "8", "9">>[d + 1]
RECURSIVE NumToString(_)
NumToString(n) ==
    IF n < 10 THEN <<DigitCh(n)>> ELSE NumToString(n \div 10) \o <<DigitCh(n % 10)>>

(***************************************************************************)
(* JavaScript numbers as far as planTrip needs them: NaN, or the rational  *)
(* num/den (den > 0).                                                      *)
(***************************************************************************)
NaN == [nan |-> TRUE, num |-> 0, den |-> 1]
Num(n) == [nan |-> FALSE, num |-> n, den |-> 1]
NumMinus(a, b) == IF a.nan \/ b.nan THEN NaN ELSE Num(a.num - b.num)
NumDiv(a, k) == IF a.nan THEN NaN ELSE [nan |-> FALSE, num |-> a.num, den |-> a.den * k]
\* Math.max: NaN when either argument is NaN
MathMax(a, b) ==
    IF a.nan \/ b.nan THEN NaN
    ELSE IF a.num * b.den >= b.num * a.den THEN a ELSE b
\* Math.ceil
MathCeil(a) == IF a.nan THEN NaN ELSE Num(-((-a.num) \div a.den))
\* i < n for an integer i: false when n is NaN
IntLess(i, n) == ~n.nan /\ i * n.den < n.num

(***************************************************************************)
(* planTrip: duration.                                                     *)
(***************************************************************************)
MsPerDay == 86400000

\* A date string: "iso" stands for 1970-01-(1+day)T00:00:00Z plus ms
\* milliseconds; the other kinds are strings Date cannot parse.
UnparseableDates == [kind : {"empty", "garbage"}, day : {0}, ms : {0}]
StartDates ==
    [kind : {"iso"}, day : 0..MaxStartDay, ms : {0, 1}] \cup UnparseableDates
EndDates ==
    [kind : {"iso"}, day : 0..MaxDay, ms : {0, 1}] \cup UnparseableDates
\* new Date(s).getTime()
DateGetTime(s) == IF s.kind = "iso" THEN Num(s.day * MsPerDay + s.ms) ELSE NaN

\* The trip length with the day count rounded down instead of up; C1_DayCount
\* does not hold of it.
TripLengthRoundedDown(start_date, end_date) ==
    LET start == DateGetTime(start_date)
        end == DateGetTime(end_date)
        days == MathMax(Num(1), NumDiv(NumMinus(end, start), MsPerDay))
    IN IF days.nan THEN NaN ELSE Num(days.num \div days.den)

\* The immediately-invoked function of planTrip.execute
TripLength(start_date, end_date) ==
    LET start == DateGetTime(start_date)
        end == DateGetTime(end_date)
        days == MathMax(Num(1), NumDiv(NumMinus(end, start), MsPerDay))
    IN MathCeil(days)

(***************************************************************************)
(* planTrip: regional expansion.                                           *)
(***************************************************************************)
regionToCities ==
    << [region |-> <<"c", "a", "l", "i", "f", "o", "r", "n", "i", "a">>,
        cities |-> <<<<"L", "o", "s", " ", "A", "n", "g", "e", "l", "e", "s">>, <<"S", "a", "n", " ", "F", "r", "a", "n", "c", "i", "s", "c", "o">>, <<"S", "a", "n", " ", "D", "i", "e", "g", "o">>, <<"Y", "o", "s", "e", "m", "i", "t", "e", " ", "N", "a", "t", "i", "o", "n", "a", "l", " ", "P", "a", "r", "k">>>>],
       [region |-> <<"j", "a", "p", "a", "n">>,
        cities |-> <<<<"T", "o", "k", "y", "o">>, <<"K", "y", "o", "t", "o">>, <<"O", "s", "a", "k", "a">>, <<"H", "i", "r", "o", "s", "h", "i", "m", "a">>>>],
       [region |-> <<"i", "t", "a", "l", "y">>,
        cities |-> <<<<"R", "o", "m", "e">>, <<"F", "l", "o", "r", "e", "n", "c", "e">>, <<"V", "e", "n", "i", "c", "e">>, <<"M", "i", "l", "a", "n">>>>],
       [region |-> <<"f", "r", "a", "n", "c", "e">>,
        cities |-> <<<<"P", "a", "r", "i", "s">>, <<"N", "i", "c", "e">>, <<"L", "y", "o", "n">>, <<"B", "o", "r", "d", "e", "a", "u", "x">>>>],
       [region |-> <<"s", "p", "a", "i", "n">>,
        cities |-> <<<<"B", "a", "r", "c", "e", "l", "o", "n", "a">>, <<"M", "a", "d", "r", "i", "d">>, <<"S", "e", "v", "i", "l", "l", "e">>, <<"V", "a", "l", "e", "n", "c", "i", "a">>>>],
       [region |-> <<"i", "n", "d", "i", "a">>,
        cities |-> <<<<"D", "e", "l", "h", "i">>, <<"J", "a", "i", "p", "u", "r">>, <<"A", "g", "r", "a">>, <<"M", "u", "m", "b", "a", "i">>>>],
       [region |-> <<"g", "r", "e", "e", "c", "e">>,
        cities |-> <<<<"A", "t", "h", "e", "n", "s">>, <<"S", "a", "n", "t", "o", "r", "i", "n", "i">>, <<"M", "y", "k", "o", "n", "o", "s">>, <<"C", "r", "e", "t", "e">>>>] >>

\* The properties an object literal inherits from Object.prototype.
ObjectPrototypeProps ==
    { <<"c", "o", "n", "s", "t", "r", "u", "c", "t", "o", "r">>, <<"_", "_", "p", "r", "o", "t", "o", "_", "_">>, <<"t", "o", "S", "t", "r", "i", "n", "g">>, <<"v", "a", "l", "u", "e", "O", "f">>, <<"h", "a", "s", "O", "w", "n", "P", "r", "o", "p", "e", "r", "t", "y">>,
      <<"i", "s", "P", "r", "o", "t", "o", "t", "y", "p", "e", "O", "f">>, <<"p", "r", "o", "p", "e", "r", "t", "y", "I", "s", "E", "n", "u", "m", "e", "r", "a", "b", "l", "e">>, <<"t", "o", "L", "o", "c", "a", "l", "e", "S", "t", "r", "i", "n", "g">> }

\* regionToCities[key]: an own property is the city array; an inherited one
\* is a function or an object, which is truthy and has no indexed elements.
RegionLookup(key) ==
    IF \E r \in DOMAIN regionToCities : regionToCities[r].region = key
    THEN [kind |-> "array",
          items |-> regionToCities[CHOOSE r \in DOMAIN regionToCities :
                                       regionToCities[r].region = key].cities]
    ELSE IF key \in ObjectPrototypeProps
    THEN [kind |-> "inherited", items |-> <<>>]
    ELSE [kind |-> "undefined", items |-> <<>>]

\* regionToCities[normalized] || [destination]
SubDestinations(destination) ==
    LET found == RegionLookup(ToLowerCase(destination))
    IN IF found.kind = "undefined"
       THEN [kind |-> "array", items |-> <<destination>>]
       ELSE found

\* `${subDestinations[i % subDestinations.length]}`
CityOfDay(subDestinations, i) ==
    IF subDestinations.kind = "array"
    THEN subDestinations.items[(i % Len(subDestinations.items)) + 1]
    ELSE <<"u", "n", "d", "e", "f", "i", "n", "e", "d">>

(***************************************************************************)
(* planTrip: the itinerary text.                                           *)
(***************************************************************************)
exampleRestaurants ==
    << <<"B", "l", "u", "e", " ", "B", "o", "t", "t", "l", "e", " ", "C", "o", "f", "f", "e", "e">>, <<"T", "h", "e", " ", "G", "r", "o", "v", "e", " ", "C", "a", "f", "EACUTE">>, <<"T", "h", "e", " ", "L", "o", "c", "a", "l", " ", "D", "i", "n", "e", "r">>,
       <<"H", "a", "r", "b", "o", "r", " ", "V", "i", "e", "w", " ", "S", "e", "a", "f", "o", "o", "d", " ", "G", "r", "i", "l", "l">>, <<"M", "o", "u", "n", "t", "a", "i", "n", " ", "B", "i", "s", "t", "r", "o">>, <<"S", "u", "n", "s", "e", "t", " ", "T", "e", "r", "r", "a", "c", "e">> >>

exampleActivities ==
    << <<"c", "i", "t", "y", " ", "w", "a", "l", "k", "i", "n", "g", " ", "t", "o", "u", "r">>, <<"m", "u", "s", "e", "u", "m", " ", "v", "i", "s", "i", "t">>, <<"b", "o", "a", "t", " ", "r", "i", "d", "e">>, <<"s", "c", "e", "n", "i", "c", " ", "l", "o", "o", "k", "o", "u", "t">>,
       <<"s", "h", "o", "p", "p", "i", "n", "g", " ", "d", "i", "s", "t", "r", "i", "c", "t">>, <<"l", "o", "c", "a", "l", " ", "m", "a", "r", "k", "e", "t", " ", "e", "x", "p", "l", "o", "r", "a", "t", "i", "o", "n">>, <<"f", "i", "n", "e", " ", "d", "i", "n", "i", "n", "g", " ", "e", "x", "p", "e", "r", "i", "e", "n", "c", "e">> >>

Restaurant(k) == exampleRestaurants[(k % Len(exampleRestaurants)) + 1]
Activity(k) == exampleActivities[(k % Len(exampleActivities)) + 1]

\* The block pushed for loop index i
DayBlock(i, city) ==
    <<"*", "*", "D", "a", "y", " ">> \o NumToString(i + 1) \o <<" ", "EMDASH", " ">> \o city \o <<"*", "*", " ", " ", "\n">>
    \o <<"-", " ", "*", "*", "0", "8", ":", "0", "0", " ", "A", "M", ":", "*", "*", " ", "B", "r", "e", "a", "k", "f", "a", "s", "t", " ", "a", "t", " ">> \o Restaurant(i * 3) \o <<" ", " ", "\n">>
    \o <<"-", " ", "*", "*", "1", "0", ":", "0", "0", " ", "A", "M", ":", "*", "*", " ">> \o Activity(i * 4) \o <<" ", "i", "n", " ">> \o city \o <<" ", " ", "\n">>
    \o <<"-", " ", "*", "*", "1", "2", ":", "3", "0", " ", "P", "M", ":", "*", "*", " ", "L", "u", "n", "c", "h", " ", "a", "t", " ">> \o Restaurant(i * 3 + 1) \o <<" ", " ", "\n">>
    \o <<"-", " ", "*", "*", "0", "3", ":", "0", "0", " ", "P", "M", ":", "*", "*", " ">> \o Activity(i * 2 + 1) \o <<" ", "n", "e", "a", "r", "b", "y", " ", " ", "\n">>
    \o <<"-", " ", "*", "*", "0", "7", ":", "3", "0", " ", "P", "M", ":", "*", "*", " ", "D", "i", "n", "n", "e", "r", " ", "a", "t", " ">> \o Restaurant(i * 3 + 2) \o <<" ", " ", "\n">>

\* for (let i = 0; i < tripLength; i++) itinerary.push(...)
RECURSIVE DayLoop(_, _, _)
DayLoop(i, tripLength, subDestinations) ==
    IF IntLess(i, tripLength)
    THEN <<DayBlock(i, CityOfDay(subDestinations, i))>>
         \o DayLoop(i + 1, tripLength, subDestinations)
    ELSE <<>>

\* An optional string array: absent, or the list of names
Absent == [given |-> FALSE, items |-> <<>>]
Given(items) == [given |-> TRUE, items |-> items]

FullItinerary(destination, friends, interests, itinerary) ==
    Trim(<<"\n", "T", "r", "i", "p", " ", "t", "o", " ", "*", "*">> \o destination \o <<"*", "*", " ", " ", "\n">>
         \o (IF friends.given
             THEN <<"T", "r", "a", "v", "e", "l", "i", "n", "g", " ", "w", "i", "t", "h", ":", " ">> \o Join(friends.items, <<",", " ">>) ELSE <<>>)
         \o <<"\n">>
         \o (IF interests.given
             THEN <<"T", "r", "a", "v", "e", "l", "e", "r", " ", "i", "n", "t", "e", "r", "e", "s", "t", "s", ":", " ">> \o Join(interests.items, <<",", " ">>) ELSE <<>>)
         \o <<"\n", "\n", "H", "e", "r", "e", "RSQUO", "s", " ", "y", "o", "u", "r", " ", "d", "e", "t", "a", "i", "l", "e", "d", " ", "i", "t", "i", "n", "e", "r", "a", "r", "y", ":", "\n">>
         \o Join(itinerary, <<"\n">>)
         \o <<"\n", " ", " ", " ", " ">>)

(***************************************************************************)
(* Regular expressions of generateMapLinks. Positions are 1-based; a match *)
(* is [start, end, cap]: it covers start..end-1 and its capture group      *)
(* cap..end-1. An end of 0 says the expression does not match there.       *)
(***************************************************************************)
NoMatch == [start |-> 0, end |-> 0, cap |-> 0]

\* The first position from p on whose character is outside class
RECURSIVE RunEnd(_, _, _)
RunEnd(s, p, class) ==
    IF p > Len(s) \/ s[p] \notin class THEN p ELSE RunEnd(s, p + 1, class)

RECURSIVE RunEndNot(_, _, _)
RunEndNot(s, p, c) ==
    IF p > Len(s) \/ s[p] = c THEN p ELSE RunEndNot(s, p + 1, c)

\* The literal lit at position p; ic is the i flag
LitAt(s, p, lit, ic) ==
    /\ p + Len(lit) - 1 <= Len(s)
    /\ \A k \in 1..Len(lit) :
          IF ic THEN LowerCh(s[p + k - 1]) = LowerCh(lit[k]) ELSE s[p + k - 1] = lit[k]

IsWordAt(s, p) == p >= 1 /\ p <= Len(s) /\ s[p] \in WordChar
\* \b before position p
WordBoundary(s, p) == IsWordAt(s, p - 1) # IsWordAt(s, p)

\* /\*\*Day\s+\d+/ at p
DayHeadMatch(s, p) ==
    IF ~LitAt(s, p, <<"*", "*", "D", "a", "y">>, FALSE) THEN NoMatch
    ELSE LET a == p + 5
             b == RunEnd(s, a, WhiteSpace)
             c == RunEnd(s, b, Digit)
         IN IF b > a /\ c > b THEN [start |-> p, end |-> c, cap |-> b] ELSE NoMatch

\* /\*\*Day\s+(\d+)[^*]*/ at p
DayTitleMatch(s, p) ==
    LET m == DayHeadMatch(s, p)
    IN IF m.end = 0 THEN NoMatch
       ELSE [start |-> p, end |-> RunEndNot(s, m.end, "*"), cap |-> m.cap]

locationAlts ==
    << <<"a", "t">>, <<"i", "n">>, <<"a", "r", "o", "u", "n", "d">>, <<"n", "e", "a", "r">>, <<"v", "i", "s", "i", "t">>, <<"e", "x", "p", "l", "o", "r", "e">>, <<"l", "u", "n", "c", "h", " ", "a", "t">>, <<"d", "i", "n", "n", "e", "r", " ", "a", "t">> >>
localContextAlts ==
    << <<"i", "n">>, <<"a", "r", "o", "u", "n", "d">>, <<"n", "e", "a", "r">>, <<"v", "i", "s", "i", "t">>, <<"e", "x", "p", "l", "o", "r", "e">> >>

\* [A-Z] under the i flag matches the letters of both cases
CapitalClass(ic) == IF ic THEN Letter ELSE UpperSet

\* The rest of a phrase expression after its alternative: \s+([A-Z][\w'&\- ]+)
PhraseTail(s, p, a, ic) ==
    LET b == RunEnd(s, a, WhiteSpace)
        c == IF b <= Len(s) /\ s[b] \in CapitalClass(ic)
             THEN RunEnd(s, b + 1, PhraseChar) ELSE 0
    IN IF b > a /\ c > b + 1 THEN [start |-> p, end |-> c, cap |-> b] ELSE NoMatch

\* /\b(?:alts)\s+([A-Z][\w'&\- ]+)/ at p, with flag i when ic: the first
\* alternative, in order, after which the rest matches
PhraseMatch(s, p, alts, ic) ==
    IF ~WordBoundary(s, p) THEN NoMatch
    ELSE LET ok == {k \in DOMAIN alts :
                      /\ LitAt(s, p, alts[k], ic)
                      /\ PhraseTail(s, p, p + Len(alts[k]), ic).end # 0}
         IN IF ok = {} THEN NoMatch
            ELSE PhraseTail(s, p, p + Len(alts[SetMin(ok)]), ic)

\* The successive matches of a g-flag expression, left to right, given the
\* match at every position that has one: each search starts where the
\* previous match ended.
RECURSIVE Successive(_, _)
Successive(found, from) ==
    LET c == {m \in found : m.start >= from}
    IN IF c = {} THEN <<>>
       ELSE LET p == SetMin({m.start : m \in c})
                m == CHOOSE m \in c : m.start = p
            IN <<m>> \o Successive(found, m.end)

DayHeadMatches(s) ==
    Successive({DayHeadMatch(s, p) : p \in {q \in 1..Len(s) : s[q] = "*"}} \ {NoMatch}, 1)
DayTitleMatches(s) ==
    Successive({DayTitleMatch(s, p) : p \in {q \in 1..Len(s) : s[q] = "*"}} \ {NoMatch}, 1)
LocationMatches(s) ==
    Successive({PhraseMatch(s, p, locationAlts, TRUE) : p \in 1..Len(s)} \ {NoMatch}, 1)
\* The local context taken from the prepositions of locationRegex ("at"
\* included); C7_ContextAmended does not hold of it.
LocalContextMatchAnyPreposition(s) ==
    LET found == {PhraseMatch(s, p, locationAlts, TRUE) : p \in 1..Len(s)} \ {NoMatch}
    IN IF found = {} THEN NoMatch
       ELSE CHOOSE m \in found : m.start = SetMin({n.start : n \in found})

\* String.prototype.match without the g flag: the leftmost match
LocalContextMatch(s) ==
    LET found == {PhraseMatch(s, p, localContextAlts, TRUE) : p \in 1..Len(s)} \ {NoMatch}
    IN IF found = {} THEN NoMatch
       ELSE CHOOSE m \in found : m.start = SetMin({n.start : n \in found})

\* String.prototype.split on the matches ms
Split(s, ms) ==
    [k \in 1..(Len(ms) + 1) |->
        SubSeq(s, IF k = 1 THEN 1 ELSE ms[k - 1].end,
                  IF k = Len(ms) + 1 THEN Len(s) ELSE ms[k].start - 1)]

(***************************************************************************)
(* encodeURIComponent.                                                     *)
(***************************************************************************)
Unreserved == WordChar \cup {"-", ".", "!", "~", "*", "'", "(", ")"}
PercentEncoded ==
    << [ch |-> "\t", enc |-> <<"%", "0", "9">>],
       [ch |-> "\n", enc |-> <<"%", "0", "A">>],
       [ch |-> "\r", enc |-> <<"%", "0", "D">>],
       [ch |-> " ", enc |-> <<"%", "2", "0">>],
       [ch |-> "\"", enc |-> <<"%", "2", "2">>],
       [ch |-> "#", enc |-> <<"%", "2", "3">>],
       [ch |-> "$", enc |-> <<"%", "2", "4">>],
       [ch |-> "%", enc |-> <<"%", "2", "5">>],
       [ch |-> "&", enc |-> <<"%", "2", "6">>],
       [ch |-> "+", enc |-> <<"%", "2", "B">>],
       [ch |-> ",", enc |-> <<"%", "2", "C">>],
       [ch |-> "/", enc |-> <<"%", "2", "F">>],
       [ch |-> ":", enc |-> <<"%", "3", "A">>],
       [ch |-> ";", enc |-> <<"%", "3", "B">>],
       [ch |-> "<", enc |-> <<"%", "3", "C">>],
       [ch |-> "=", enc |-> <<"%", "3", "D">>],
       [ch |-> ">", enc |-> <<"%", "3", "E">>],
       [ch |-> "?", enc |-> <<"%", "3", "F">>],
       [ch |-> "@", enc |-> <<"%", "4", "0">>],
       [ch |-> "[", enc |-> <<"%", "5", "B">>],
       [ch |-> "\\", enc |-> <<"%", "5", "C">>],
       [ch |-> "]", enc |-> <<"%", "5", "D">>],
       [ch |-> "^", enc |-> <<"%", "5", "E">>],
       [ch |-> "BACKTICK", enc |-> <<"%", "6", "0">>],
       [ch |-> "{", enc |-> <<"%", "7", "B">>],
       [ch |-> "|", enc |-> <<"%", "7", "C">>],
       [ch |-> "}", enc |-> <<"%", "7", "D">>],
       [ch |-> "EACUTE", enc |-> <<"%", "C", "3", "%", "A", "9">>],
       [ch |-> "EMDASH", enc |-> <<"%", "E", "2", "%", "8", "0", "%", "9", "4">>],
       [ch |-> "RSQUO", enc |-> <<"%", "E", "2", "%", "8", "0", "%", "9", "9">>],
       [ch |-> "BULLET", enc |-> <<"%", "E", "2", "%", "8", "0", "%", "A", "2">>] >>

EncodeCh(c) ==
    IF c \in Unreserved THEN <<c>>
    ELSE PercentEncoded[CHOOSE k \in DOMAIN PercentEncoded : PercentEncoded[k].ch = c].enc
RECURSIVE EncodeURIComponent(_)
EncodeURIComponent(s) ==
    IF s = <<>> THEN <<>> ELSE EncodeCh(Head(s)) \o EncodeURIComponent(Tail(s))

(***************************************************************************)
(* generateMapLinks.                                                       *)
(***************************************************************************)
\* An optional string argument
Undefined == [given |-> FALSE, text |-> <<>>]
Str(t) == [given |-> TRUE, text |-> t]

\* destination || "the trip destination"
InferredDestination(destination) ==
    IF destination.given /\ destination.text # <<>>
    THEN destination.text ELSE <<"t", "h", "e", " ", "t", "r", "i", "p", " ", "d", "e", "s", "t", "i", "n", "a", "t", "i", "o", "n">>

\* The split without slice(1), which keeps the text before the first
\* heading as a block; C5_OneSectionPerHeading does not hold of it.
DayBlocksWithPreamble(itinerary) == Split(itinerary, DayHeadMatches(itinerary))

\* itinerary.split(/\*\*Day\s+\d+/g).slice(1)
DayBlocks(itinerary) == Tail(Split(itinerary, DayHeadMatches(itinerary)))

\* The texts s[m.start .. m.end-1] (whole) or s[m.cap .. m.end-1] (group 1)
\* of the matches ms, trimmed
TrimmedMatches(s, ms, group) ==
    [k \in 1..Len(ms) |->
        Trim(SubSeq(s, IF group = 1 THEN ms[k].cap ELSE ms[k].start, ms[k].end - 1))]

\* [...itinerary.matchAll(/\*\*Day\s+(\d+)[^*]*/g)].map(m => m[0].trim())
DayTitles(itinerary) == TrimmedMatches(itinerary, DayTitleMatches(itinerary), 0)

\* [...block.matchAll(locationRegex)].map(m => m[1].trim())
Places(block) == TrimmedMatches(block, LocationMatches(block), 1)

\* localContextMatch ? localContextMatch[1].trim() : inferredDestination
LocalContextOf(block, m, inferredDestination) ==
    IF m.end # 0 THEN Trim(SubSeq(block, m.cap, m.end - 1)) ELSE inferredDestination
LocalContext(block, inferredDestination) ==
    LocalContextOf(block, LocalContextMatch(block), inferredDestination)

\* One entry of dailyLinks
MapLink(place, localContext) ==
    <<"BULLET">> \o <<" ", "[">> \o place \o <<" ", "(">> \o localContext \o <<")", "]", "(">>
    \o <<"h", "t", "t", "p", "s", ":", "/", "/", "w", "w", "w", ".", "g", "o", "o", "g", "l", "e", ".", "c", "o", "m", "/", "m", "a", "p", "s", "/", "s", "e", "a", "r", "c", "h", "/", "?", "a", "p", "i", "=", "1", "&", "q", "u", "e", "r", "y", "=">>
    \o EncodeURIComponent(place \o <<",", " ">> \o localContext)
    \o <<")">>

\* dayTitles[index] || `Day ${index + 1}`, index 0-based
TitleOf(dayTitles, index) ==
    IF index + 1 <= Len(dayTitles) /\ dayTitles[index + 1] # <<>>
    THEN dayTitles[index + 1] ELSE <<"D", "a", "y", " ">> \o NumToString(index + 1)

\* What the forEach callback pushes, given its locals
SectionText(title, places, localContext) ==
    <<"*", "*">> \o title \o <<"*", "*", "\n">>
    \o (IF Len(places) > 0
        THEN Join([k \in 1..Len(places) |-> MapLink(places[k], localContext)], <<"\n">>)
        ELSE <<"N", "o", " ", "r", "e", "c", "o", "g", "n", "i", "z", "a", "b", "l", "e", " ", "l", "o", "c", "a", "t", "i", "o", "n", "s", " ", "f", "o", "u", "n", "d", ".">>)

SectionOf(title, places, localContext) ==
    [places |-> places,
     localContext |-> localContext,
     text |-> SectionText(title, places, localContext)]

\* The forEach callback on one block: its locals and the text it pushes
DaySection(block, index, dayTitles, inferredDestination) ==
    SectionOf(TitleOf(dayTitles, index), Places(block),
              LocalContext(block, inferredDestination))

Sections(dayBlocks, dayTitles, inferredDestination) ==
    [k \in 1..Len(dayBlocks) |->
        DaySection(dayBlocks[k], k - 1, dayTitles, inferredDestination)]

\* The text generateMapLinks returns, given links
MapLinksResult(sections) ==
    Trim(<<"\n", " ", "*", "*", "G", "o", "o", "g", "l", "e", " ", "M", "a", "p", "s", " ", "L", "i", "n", "k", "s", " ", "f", "o", "r", " ", "E", "a", "c", "h", " ", "D", "a", "y", "*", "*", "\n", "\n">>
         \o Join([k \in 1..Len(sections) |-> sections[k].text], <<"\n", "\n">>)
         \o <<"\n", " ", " ", " ", " ">>)

MapLinksOf(itinerary, destination, dayBlocks, dayTitles, sections) ==
    [locals |-> [itinerary |-> itinerary,
                 destination |-> destination,
                 dayBlocks |-> dayBlocks,
                 dayTitles |-> dayTitles,
                 sections |-> sections],
     result |-> MapLinksResult(sections)]

MapLinksFrom(itinerary, destination, dayBlocks, dayTitles) ==
    MapLinksOf(itinerary, destination, dayBlocks, dayTitles,
               Sections(dayBlocks, dayTitles, InferredDestination(destination)))

\* generateMapLinks.execute: its locals (links is the text of sections) and
\* its result
GenerateMapLinks(itinerary, destination) ==
    MapLinksFrom(itinerary, destination, DayBlocks(itinerary), DayTitles(itinerary))

(***************************************************************************)
(* planTrip.execute: its locals and its result.                            *)
(***************************************************************************)
PlanTripOf(tripLength, itinerary, fullItinerary, mapLinks) ==
    [plan |-> [tripLength |-> tripLength, itinerary |-> itinerary],
     maps |-> mapLinks.locals,
     result |-> fullItinerary \o <<"\n", "\n">> \o mapLinks.result]

\* From fullItinerary on: the call of generateMapLinks and the return
PlanTripFrom(destination, tripLength, itinerary, fullItinerary) ==
    PlanTripOf(tripLength, itinerary, fullItinerary,
               GenerateMapLinks(fullItinerary, Str(destination)))

PlanTripDays(destination, interests, friends, tripLength, itinerary) ==
    PlanTripFrom(destination, tripLength, itinerary,
                 FullItinerary(destination, friends, interests, itinerary))

PlanTripLasting(destination, interests, friends, tripLength) ==
    PlanTripDays(destination, interests, friends, tripLength,
                 DayLoop(0, tripLength, SubDestinations(destination)))

PlanTrip(destination, start_date, end_date, interests, friends) ==
    PlanTripLasting(destination, interests, friends, TripLength(start_date, end_date))

(***************************************************************************)
(* The tools that call a collaborator: the agent's scheduler and the mail  *)
(* service. A call of a collaborator ends in one of these ways.            *)
(***************************************************************************)
\* Ids of the schedules the agent hands out are 1..MaxTasks.
MaxTasks == 3

\* The error a failing collaborator raises, as `${error}` prints it
ErrorText == <<"E", "r", "r", "o", "r", ":", " ", "c", "o", "l", "l", "a", "b", "o", "r", "a", "t", "o", "r", " ", "f", "a", "i", "l", "e", "d">>

\* scheduleTask.execute. `called` is how agent.schedule ended: "ok",
\* "throws" (an exception raised before it returns) or "rejects" (the promise
\* it returns is rejected). The call is not awaited: only "throws" reaches
\* the catch clause.
ScheduleTask(when, called) ==
    IF when.type = "no-schedule"
    THEN [kind |-> "text", outcome |-> "invalid", collaborator |-> "none",
          text |-> <<"N", "o", "t", " ", "a", " ", "v", "a", "l", "i", "d", " ", "s", "c", "h", "e", "d", "u", "l", "e", " ", "i", "n", "p", "u", "t">>]
    ELSE IF when.type \notin {"scheduled", "delayed", "cron"}
    THEN [kind |-> "throw", outcome |-> "exception", collaborator |-> "none",
          text |-> <<"n", "o", "t", " ", "a", " ", "v", "a", "l", "i", "d", " ", "s", "c", "h", "e", "d", "u", "l", "e", " ", "i", "n", "p", "u", "t">>]
    ELSE IF called = "throws"
    THEN [kind |-> "text", outcome |-> "failure", collaborator |-> called,
          text |-> <<"E", "r", "r", "o", "r", " ", "s", "c", "h", "e", "d", "u", "l", "i", "n", "g", " ", "t", "a", "s", "k", ":", " ">> \o ErrorText]
    ELSE [kind |-> "text", outcome |-> "success", collaborator |-> called,
          text |-> <<"T", "a", "s", "k", " ", "s", "c", "h", "e", "d", "u", "l", "e", "d", " ", "f", "o", "r", " ", "t", "y", "p", "e", " ", "\"">> \o when.typeText \o <<"\"", " ", ":", " ">> \o when.input]

\* getScheduledTasks.execute. `called` is how agent.getSchedules ended.
GetScheduledTasks(tasks, called) ==
    IF called # "ok"
    THEN [kind |-> "text", outcome |-> "failure", collaborator |-> called,
          text |-> <<"E", "r", "r", "o", "r", " ", "l", "i", "s", "t", "i", "n", "g", " ", "s", "c", "h", "e", "d", "u", "l", "e", "d", " ", "t", "a", "s", "k", "s", ":", " ">> \o ErrorText]
    ELSE IF Len(tasks) = 0
    THEN [kind |-> "text", outcome |-> "success", collaborator |-> called,
          text |-> <<"N", "o", " ", "s", "c", "h", "e", "d", "u", "l", "e", "d", " ", "t", "a", "s", "k", "s", " ", "f", "o", "u", "n", "d", ".">>]
    ELSE [kind |-> "tasks", outcome |-> "success", collaborator |-> called,
          text |-> tasks]

\* cancelScheduledTask.execute. The call of agent.cancelSchedule is awaited:
\* an exception and a rejection both reach the catch clause.
CancelScheduledTask(taskId, called) ==
    IF called = "ok"
    THEN [kind |-> "text", outcome |-> "success", collaborator |-> called,
          text |-> <<"T", "a", "s", "k", " ">> \o taskId \o <<" ", "h", "a", "s", " ", "b", "e", "e", "n", " ", "s", "u", "c", "c", "e", "s", "s", "f", "u", "l", "l", "y", " ", "c", "a", "n", "c", "e", "l", "e", "d", ".">>]
    ELSE [kind |-> "text", outcome |-> "failure", collaborator |-> called,
          text |-> <<"E", "r", "r", "o", "r", " ", "c", "a", "n", "c", "e", "l", "i", "n", "g", " ", "t", "a", "s", "k", " ">> \o taskId \o <<":", " ">> \o ErrorText]

\* sendEmail.execute from the fetch on. `called` is how the request ended:
\* "ok" (a 2xx answer), "not-ok" (another status, with a readable body),
\* "not-ok-unreadable" (another status, and response.text() is rejected) or
\* "rejects" (fetch is rejected).
SendEmail(to, called) ==
    IF called = "ok"
    THEN [kind |-> "text", outcome |-> "success", collaborator |-> called,
          text |-> <<"E", "m", "a", "i", "l", " ", "s", "e", "n", "t", " ", "s", "u", "c", "c", "e", "s", "s", "f", "u", "l", "l", "y", " ", "t", "o", ":", " ">> \o Join(to, <<",", " ">>)]
    ELSE IF called = "not-ok"
    THEN [kind |-> "text", outcome |-> "failure", collaborator |-> called,
          text |-> <<"F", "a", "i", "l", "e", "d", " ", "t", "o", " ", "s", "e", "n", "d", " ", "e", "m", "a", "i", "l", ":", " ">> \o <<"U", "n", "a", "u", "t", "h", "o", "r", "i", "z", "e", "d">>]
    ELSE [kind |-> "text", outcome |-> "failure", collaborator |-> called,
          text |-> <<"E", "r", "r", "o", "r", " ", "s", "e", "n", "d", "i", "n", "g", " ", "e", "m", "a", "i", "l", ":", " ">> \o ErrorText]

(***************************************************************************)
(* The requests the tools are given.                                       *)
(***************************************************************************)
Destinations ==
    { <<"j", "a", "p", "a", "n">>, <<"I", "T", "A", "L", "Y">>, <<"C", "a", "l", "i", "f", "o", "r", "n", "i", "a">>, <<"A", "t", "l", "a", "n", "t", "i", "s">>, <<"p", "a", "r", "i", "s">>, <<>>, <<"c", "o", "n", "s", "t", "r", "u", "c", "t", "o", "r">> }
FriendsOptions == {Absent, Given(<<<<"A", "n", "n">>, <<"B", "o">>>>)}
InterestsOptions == {Absent, Given(<<<<"f", "o", "o", "d">>>>)}

\* The pieces hand-written itineraries are made of
Fragments ==
    { <<"T", "r", "i", "p", " ", "i", "n", " ", "I", "t", "a", "l", "y", "\n">>,
      <<"*", "*", "D", "a", "y", " ", "1", " ", "EMDASH", " ", "R", "o", "m", "e", "*", "*", "\n">>,
      <<"*", "*", "D", "a", "y", " ", "1", "2", ":", " ", "O", "l", "d", " ", "T", "o", "w", "n", "\n">>,
      <<"*", "*", "D", "a", "y", " ", "t", "w", "o", "*", "*", "\n">>,
      <<"*", "*", "D", "a", "y", " ", " ", "3", " ", "\n">>,
      <<"-", " ", "L", "u", "n", "c", "h", " ", "a", "t", " ", "R", "o", "m", "a", " ", "S", "p", "a", "r", "i", "t", "a", "\n">>,
      <<"-", " ", "r", "e", "l", "a", "x", " ", "a", "t", " ", "h", "o", "m", "e", "\n">>,
      <<"-", " ", "w", "a", "l", "k", " ", "a", "r", "o", "u", "n", "d", " ", "T", "r", "a", "s", "t", "e", "v", "e", "r", "e", ",", " ", "t", "h", "e", "n", " ", "v", "i", "s", "i", "t", " ", "S", "t", " ", "P", "e", "t", "e", "r", "'", "s", "\n">>,
      <<"-", " ", "f", "r", "e", "e", " ", "t", "i", "m", "e", "\n">> }
RECURSIVE TextsOf(_)
TextsOf(n) ==
    IF n = 0 THEN {<<>>}
    ELSE LET shorter == TextsOf(n - 1)
         IN shorter \cup {t \o f : t \in shorter, f \in Fragments}
HandWritten == TextsOf(MaxFrags)
OptionalDestinations == {Undefined, Str(<<>>), Str(<<"L", "a", "z", "i", "o">>)}

PlanTripRequests ==
    [tool : {"planTrip"}, destination : Destinations,
     start_date : StartDates, end_date : EndDates,
     interests : {Absent}, friends : {Absent}]
    \cup [tool : {"planTrip"}, destination : {<<"j", "a", "p", "a", "n">>},
          start_date : {[kind |-> "iso", day |-> 0, ms |-> 0]},
          end_date : {[kind |-> "iso", day |-> 2, ms |-> 0]},
          interests : InterestsOptions, friends : FriendsOptions]

ScheduleInputs ==
    { [type |-> "no-schedule", typeText |-> <<"n", "o", "-", "s", "c", "h", "e", "d", "u", "l", "e">>, input |-> <<>>],
      [type |-> "scheduled", typeText |-> <<"s", "c", "h", "e", "d", "u", "l", "e", "d">>, input |-> <<"F", "r", "i", " ", "J", "a", "n", " ", "0", "2", " ", "1", "9", "7", "0", " ", "0", "0", ":", "0", "0", ":", "0", "0", " ", "G", "M", "T", "+", "0", "0", "0", "0", " ", "(", "C", "o", "o", "r", "d", "i", "n", "a", "t", "e", "d", " ", "U", "n", "i", "v", "e", "r", "s", "a", "l", " ", "T", "i", "m", "e", ")">>],
      [type |-> "delayed", typeText |-> <<"d", "e", "l", "a", "y", "e", "d">>, input |-> <<"1", "0">>],
      [type |-> "cron", typeText |-> <<"c", "r", "o", "n">>, input |-> <<"0", " ", "8", " ", "*", " ", "*", " ", "*">>] }
Recipients == {<<<<"a", "@", "x", ".", "i", "o">>>>, <<<<"a", "@", "x", ".", "i", "o">>, <<"b", "@", "x", ".", "i", "o">>>>}

(***************************************************************************)
(* State.                                                                  *)
(***************************************************************************)
VARIABLES
    pc,         \* "ready": a request waits for its tool; "done": the tool has run
    request,    \* the tool called and its arguments
    plan,       \* the locals of planTrip.execute
    maps,       \* the locals of generateMapLinks.execute (links is sections' text)
    ret,        \* what the tool returned or threw
    schedules,  \* the ids of the schedules the agent holds
    issued,     \* how many schedule ids the agent has handed out
    unhandled   \* promise rejections nobody handled

vars == <<pc, request, plan, maps, ret, schedules, issued, unhandled>>

NoPlan == [tripLength |-> NaN, itinerary |-> <<>>]
NoMaps == [itinerary |-> <<>>, destination |-> Undefined, dayBlocks |-> <<>>,
           dayTitles |-> <<>>, sections |-> <<>>]
NoRet == [kind |-> "none", outcome |-> "none", collaborator |-> "none", text |-> <<>>]

Pristine ==
    /\ plan = NoPlan
    /\ maps = NoMaps
    /\ ret = NoRet
    /\ schedules = {}
    /\ issued = 0
    /\ unhandled = 0

InitPlanTrip ==
    /\ pc = "ready"
    /\ request \in PlanTripRequests
    /\ Pristine

InitGenerateMapLinks ==
    /\ pc = "ready"
    /\ request \in [tool : {"generateMapLinks"}, itinerary : HandWritten,
                    destination : OptionalDestinations]
    /\ Pristine

InitAgent ==
    /\ pc = "idle"
    /\ request = [tool |-> "none"]
    /\ Pristine

Init == InitPlanTrip \/ InitGenerateMapLinks \/ InitAgent

(***************************************************************************)
(* Actions: one per tool with an execute function.                         *)
(***************************************************************************)
Returned(text) ==
    [kind |-> "text", outcome |-> "success", collaborator |-> "none", text |-> text]

PlanTripReturns(r) ==
    /\ plan' = r.plan
    /\ maps' = r.maps
    /\ ret' = Returned(r.result)

PlanTripExecute ==
    /\ pc = "ready"
    /\ request.tool = "planTrip"
    /\ PlanTripReturns(PlanTrip(request.destination, request.start_date,
                                request.end_date, request.interests, request.friends))
    /\ pc' = "done"
    /\ UNCHANGED <<request, schedules, issued, unhandled>>

GenerateMapLinksReturns(r) ==
    /\ maps' = r.locals
    /\ ret' = Returned(r.result)

GenerateMapLinksExecute ==
    /\ pc = "ready"
    /\ request.tool = "generateMapLinks"
    /\ GenerateMapLinksReturns(GenerateMapLinks(request.itinerary, request.destination))
    /\ pc' = "done"
    /\ UNCHANGED <<request, plan, schedules, issued, unhandled>>

\* The ids the agent holds, in ascending order, as getSchedules lists them
RECURSIVE TaskList(_)
TaskList(ids) ==
    IF ids = {} THEN <<>>
    ELSE LET m == SetMin(ids) IN <<m>> \o TaskList(ids \ {m})

ScheduleTaskExecute ==
    /\ pc \in {"idle", "done"}
    /\ request.tool \notin {"planTrip", "generateMapLinks"}
    /\ \E when \in ScheduleInputs, called \in {"ok", "throws", "rejects"} :
          /\ called = "ok" => issued < MaxTasks
          /\ request' = [tool |-> "scheduleTask", when |-> when]
          /\ ret' = ScheduleTask(when, called)
          /\ IF when.type # "no-schedule" /\ called = "ok"
             THEN /\ issued' = issued + 1
                  /\ schedules' = schedules \cup {issued + 1}
             ELSE UNCHANGED <<issued, schedules>>
          /\ unhandled' = IF when.type # "no-schedule" /\ called = "rejects"
                          THEN 1 ELSE unhandled
    /\ pc' = "done"
    /\ UNCHANGED <<plan, maps>>

GetScheduledTasksExecute ==
    /\ pc \in {"idle", "done"}
    /\ request.tool \notin {"planTrip", "generateMapLinks"}
    /\ \E called \in {"ok", "throws"} :
          /\ request' = [tool |-> "getScheduledTasks"]
          /\ ret' = GetScheduledTasks(TaskList(schedules), called)
    /\ pc' = "done"
    /\ UNCHANGED <<plan, maps, schedules, issued, unhandled>>

CancelScheduledTaskExecute ==
    /\ pc \in {"idle", "done"}
    /\ request.tool \notin {"planTrip", "generateMapLinks"}
    /\ \E id \in 1..MaxTasks, called \in {"ok", "throws", "rejects"} :
          /\ request' = [tool |-> "cancelScheduledTask", taskId |-> id]
          /\ ret' = CancelScheduledTask(NumToString(id), called)
          /\ schedules' = IF called = "ok" THEN schedules \ {id} ELSE schedules
    /\ pc' = "done"
    /\ UNCHANGED <<plan, maps, issued, unhandled>>

SendEmailExecute ==
    /\ pc \in {"idle", "done"}
    /\ request.tool \notin {"planTrip", "generateMapLinks"}
    /\ \E to \in Recipients, called \in {"ok", "not-ok", "not-ok-unreadable", "rejects"} :
          /\ request' = [tool |-> "sendEmail", to |-> to]
          /\ ret' = SendEmail(to, called)
    /\ pc' = "done"
    /\ UNCHANGED <<plan, maps, schedules, issued, unhandled>>

NextAgent ==
    \/ ScheduleTaskExecute
    \/ GetScheduledTasksExecute
    \/ CancelScheduledTaskExecute
    \/ SendEmailExecute

Next ==
    \/ PlanTripExecute
    \/ GenerateMapLinksExecute
    \/ NextAgent

Spec == Init /\ [][Next]_vars
\* One specification per family of tools
SpecPlanTrip == InitPlanTrip /\ [][PlanTripExecute]_vars
SpecGenerateMapLinks == InitGenerateMapLinks /\ [][GenerateMapLinksExecute]_vars
SpecAgent == InitAgent /\ [][NextAgent]_vars

(***************************************************************************)
(* Properties. The definitions below state what the tools are expected to  *)
(* do, in terms of the requests and of the texts, not of the operators     *)
(* above.                                                                  *)
(***************************************************************************)
StartsWith(t, p) == Len(p) <= Len(t) /\ SubSeq(t, 1, Len(p)) = p

PlanTripDone == pc = "done" /\ request.tool = "planTrip"
MapLinksDone == pc = "done" /\ request.tool = "generateMapLinks"

DatesParse == request.start_date.kind = "iso" /\ request.end_date.kind = "iso"
\* end - start in milliseconds, for dates that parse
SpanMs ==
    (request.end_date.day * MsPerDay + request.end_date.ms)
    - (request.start_date.day * MsPerDay + request.start_date.ms)
\* n = ceil(SpanMs / MsPerDay)
IsCeilOfSpan(n) == (n - 1) * MsPerDay < SpanMs /\ SpanMs <= n * MsPerDay

\* C1: for start and end dates that parse, planTrip generates
\* ceil((end - start) / one day) day blocks when that is at least 1 and
\* exactly one block otherwise (end before or equal to start); never fewer
\* than one.
C1_DayCount ==
    (PlanTripDone /\ DatesParse) =>
        /\ Len(plan.itinerary) >= 1
        /\ IF SpanMs > 0 THEN IsCeilOfSpan(Len(plan.itinerary))
           ELSE Len(plan.itinerary) = 1
        /\ plan.tripLength = Num(Len(plan.itinerary))

\* A trip whose span is two days and one millisecond has three blocks.
C1_Witness ==
    /\ PlanTripDone /\ DatesParse
    /\ SpanMs = 2 * MsPerDay + 1
    /\ Len(plan.itinerary) = 3

\* C2: when a date does not parse, planTrip returns (it does not throw) an
\* itinerary of exactly one day block.
C2_UnparseableDatesOneDay ==
    (PlanTripDone /\ ~DatesParse) =>
        /\ ret.kind = "text"
        /\ Len(plan.itinerary) = 1

\* Two characters equal up to the case of a letter
SameLetter(c, d) ==
    c = d \/ \E j \in DOMAIN UpperAZ : {c, d} = {UpperAZ[j], LowerAZ[j]}
EqualIgnoringCase(a, b) ==
    Len(a) = Len(b) /\ \A k \in 1..Len(a) : SameLetter(a[k], b[k])
\* The catalog entries the destination names, compared case-insensitively
RegionsNamed(destination) ==
    {r \in DOMAIN regionToCities : EqualIgnoringCase(destination, regionToCities[r].region)}

\* The heading of day n (1-based) in city
HeadingText(n, city) ==
    <<"*", "*", "D", "a", "y", " ">> \o NumToString(n) \o <<" ", "EMDASH", " ">> \o city \o <<"*", "*">>

\* C3: for a destination that names a catalog region case-insensitively,
\* the city of day i (0-based) is cities[i mod len(cities)], for every i
\* below the trip length.
C3_RegionCitiesInOrder ==
    PlanTripDone =>
        \A r \in RegionsNamed(request.destination) :
            \A i \in 0..(MaxDay + 1) :
                IntLess(i, plan.tripLength) =>
                    /\ i + 1 <= Len(plan.itinerary)
                    /\ StartsWith(plan.itinerary[i + 1],
                                  HeadingText(i + 1,
                                      regionToCities[r].cities[
                                          (i % Len(regionToCities[r].cities)) + 1]))

\* ITALY, five days: the fifth day is in Rome again.
C3_Witness ==
    /\ PlanTripDone
    /\ request.destination = <<"I", "T", "A", "L", "Y">>
    /\ Len(plan.itinerary) = 5
    /\ StartsWith(plan.itinerary[5], HeadingText(5, <<"R", "o", "m", "e">>))

\* C4: for a destination that is no catalog region, planTrip does not throw
\* and every day heading shows the destination string as supplied.
C4_UnknownDestinationVerbatim ==
    (PlanTripDone /\ RegionsNamed(request.destination) = {}) =>
        /\ ret.kind = "text"
        /\ \A n \in 1..Len(plan.itinerary) :
              StartsWith(plan.itinerary[n], HeadingText(n, request.destination))

\* The first line of a block, without its trailing spaces
FirstLine(block) ==
    LET ends == {p \in 1..Len(block) : block[p] = "\n"}
    IN Trim(SubSeq(block, 1, IF ends = {} THEN Len(block) ELSE SetMin(ends) - 1))
EndsWith(t, p) ==
    Len(p) <= Len(t) /\ SubSeq(t, Len(t) - Len(p) + 1, Len(t)) = p

\* C8: every generated day heading reads **Day <n> EMDASH <city>**, the
\* numbers run 1, 2, ..., tripLength, and there are as many headings as the
\* computed trip length.
C8_HeadingsNumbered ==
    PlanTripDone =>
        /\ plan.tripLength = Num(Len(plan.itinerary))
        /\ \A n \in 1..Len(plan.itinerary) :
              /\ StartsWith(FirstLine(plan.itinerary[n]),
                            <<"*", "*", "D", "a", "y", " ">> \o NumToString(n) \o <<" ", "EMDASH", " ">>)
              /\ EndsWith(FirstLine(plan.itinerary[n]), <<"*", "*">>)

\* C10: for a catalog destination, the map-links section of day i+1 uses
\* the city of that day as its local context.
C10_RoundTripContextIsCity ==
    PlanTripDone =>
        \A r \in RegionsNamed(request.destination) :
            \A n \in 1..Len(plan.itinerary) :
                /\ n <= Len(maps.sections)
                /\ maps.sections[n].localContext =
                       regionToCities[r].cities[((n - 1) % Len(regionToCities[r].cities)) + 1]

(***************************************************************************)
(* generateMapLinks.                                                       *)
(***************************************************************************)
\* A day heading **Day <whitespace> <digits> starts at position p of t
HeadingAt(t, p) ==
    /\ p + 4 <= Len(t)
    /\ SubSeq(t, p, p + 4) = <<"*", "*", "D", "a", "y">>
    /\ \E q \in (p + 6)..Len(t) :
          /\ t[q] \in Digit
          /\ \A w \in (p + 5)..(q - 1) : t[w] \in WhiteSpace
HeadingStarts(t) == {p \in 1..Len(t) : HeadingAt(t, p)}
\* The k-th element of a set of numbers, in ascending order
KthOf(S, k) == CHOOSE p \in S : Cardinality({q \in S : q < p}) = k - 1
\* The text of the heading at p: up to the next asterisk after its two
\* leading ones, without surrounding whitespace
HeadingTextAt(t, p) ==
    LET stars == {q \in (p + 2)..Len(t) : t[q] = "*"}
    IN Trim(SubSeq(t, p, IF stars = {} THEN Len(t) ELSE SetMin(stars) - 1))

MapLinksHeader == <<"*", "*", "G", "o", "o", "g", "l", "e", " ", "M", "a", "p", "s", " ", "L", "i", "n", "k", "s", " ", "f", "o", "r", " ", "E", "a", "c", "h", " ", "D", "a", "y", "*", "*">>
RECURSIVE AllSections(_)
AllSections(sections) ==
    IF sections = <<>> THEN <<>>
    ELSE <<"\n", "\n">> \o Head(sections).text \o AllSections(Tail(sections))

\* C5: the output of generateMapLinks has one section per day heading of
\* its input, in the order of the headings, and section k is titled with
\* the text of the k-th heading.
C5_OneSectionPerHeading ==
    MapLinksDone =>
        /\ Len(maps.sections) = Cardinality(HeadingStarts(maps.itinerary))
        /\ \A k \in 1..Len(maps.sections) :
              StartsWith(maps.sections[k].text,
                         <<"*", "*">> \o HeadingTextAt(maps.itinerary,
                                               KthOf(HeadingStarts(maps.itinerary), k))
                         \o <<"*", "*", "\n">>)
        /\ ret.text = MapLinksHeader \o AllSections(maps.sections)

\* Hand-written text with two headings of different shapes.
C5_Witness ==
    /\ MapLinksDone
    /\ maps.itinerary = <<"*", "*", "D", "a", "y", " ", "1", "2", ":", " ", "O", "l", "d", " ", "T", "o", "w", "n", "\n", "*", "*", "D", "a", "y", " ", " ", "3", " ", "\n">>
    /\ Len(maps.sections) = 2
    /\ StartsWith(maps.sections[2].text, <<"*", "*", "*", "*", "D", "a", "y", " ", " ", "3", "*", "*", "\n">>)

\* A preposition of alts at a word boundary at p, whitespace, and then a
\* phrase that starts at q with a character of first
PhraseAfter(block, p, alts, q, first) ==
    /\ WordBoundary(block, p)
    /\ q + 1 <= Len(block)
    /\ block[q] \in first
    /\ block[q + 1] \in PhraseChar
    /\ \E a \in DOMAIN alts :
          /\ p + Len(alts[a]) - 1 <= Len(block)
          /\ EqualIgnoringCase(SubSeq(block, p, p + Len(alts[a]) - 1), alts[a])
          /\ q > p + Len(alts[a])
          /\ \A w \in (p + Len(alts[a]))..(q - 1) : block[w] \in WhiteSpace
HasCapitalizedPlace(block) ==
    \E p \in 1..Len(block), q \in 1..Len(block) :
        PhraseAfter(block, p, locationAlts, q, UpperSet)

\* C6: a day block without a preposition followed by a capitalized phrase
\* is rendered as its title and the line "No recognizable locations
\* found.", and has no links.
C6_NoPlaceNoLinks ==
    MapLinksDone =>
        \A k \in 1..Len(maps.sections) :
            ~HasCapitalizedPlace(maps.dayBlocks[k]) =>
                /\ maps.sections[k].places = <<>>
                /\ maps.sections[k].text =
                       <<"*", "*">> \o TitleOf(maps.dayTitles, k - 1)
                       \o <<"*", "*", "\n", "N", "o", " ", "r", "e", "c", "o", "g", "n", "i", "z", "a", "b", "l", "e", " ", "l", "o", "c", "a", "t", "i", "o", "n", "s", " ", "f", "o", "u", "n", "d", ".">>

\* The phrases of a block that follow in, around, near, visit or explore,
\* as [at, from]: the preposition is at `at`, the phrase starts at `from`
ContextPhrases(block) ==
    {o \in [at : 1..Len(block), from : 1..Len(block)] :
        PhraseAfter(block, o.at, localContextAlts, o.from, Letter)}
\* The phrase that starts at q: the longest run of phrase characters
PhraseFrom(block, q) ==
    LET stops == {e \in (q + 1)..Len(block) : block[e] \notin PhraseChar}
    IN Trim(SubSeq(block, q, IF stops = {} THEN Len(block) ELSE SetMin(stops) - 1))
FirstContextPhrase(block) ==
    LET first == CHOOSE o \in ContextPhrases(block) :
                     \A n \in ContextPhrases(block) : o.at <= n.at
    IN PhraseFrom(block, first.from)

\* The local context C7 gives a block, with `fallback` for a block without
\* a context phrase
ExpectedContext(block, fallback) ==
    IF ContextPhrases(block) # {} THEN FirstContextPhrase(block) ELSE fallback
UsesContext(k, context) ==
    /\ maps.sections[k].localContext = context
    /\ maps.sections[k].text =
           SectionText(TitleOf(maps.dayTitles, k - 1), maps.sections[k].places, context)

\* C7, as claimed: the local context of a day is the first phrase after in,
\* around, near, visit or explore; without one it is the destination
\* argument, and "the trip destination" when no destination was supplied.
\* Every link of the day uses it.
C7_ContextAsClaimed ==
    MapLinksDone =>
        \A k \in 1..Len(maps.sections) :
            UsesContext(k, ExpectedContext(maps.dayBlocks[k],
                               IF maps.destination.given THEN maps.destination.text
                               ELSE <<"t", "h", "e", " ", "t", "r", "i", "p", " ", "d", "e", "s", "t", "i", "n", "a", "t", "i", "o", "n">>))

\* C7, amended: as above, and the fallback is "the trip destination" also
\* when the destination supplied is the empty string.
C7_ContextAmended ==
    MapLinksDone =>
        \A k \in 1..Len(maps.sections) :
            UsesContext(k, ExpectedContext(maps.dayBlocks[k],
                               IF maps.destination.given /\ maps.destination.text # <<>>
                               THEN maps.destination.text
                               ELSE <<"t", "h", "e", " ", "t", "r", "i", "p", " ", "d", "e", "s", "t", "i", "n", "a", "t", "i", "o", "n">>))

\* A day with two places, the first of which gives the context.
C7_Witness ==
    /\ MapLinksDone
    /\ Len(maps.sections) = 1
    /\ maps.sections[1].places = <<<<"T", "r", "a", "s", "t", "e", "v", "e", "r", "e">>, <<"S", "t", " ", "P", "e", "t", "e", "r", "'", "s">>>>
    /\ maps.sections[1].localContext = <<"T", "r", "a", "s", "t", "e", "v", "e", "r", "e">>

(***************************************************************************)
(* The tools that call a collaborator.                                     *)
(***************************************************************************)
FailureMessages ==
    { <<"E", "r", "r", "o", "r", " ", "s", "c", "h", "e", "d", "u", "l", "i", "n", "g", " ", "t", "a", "s", "k", ":", " ">>, <<"E", "r", "r", "o", "r", " ", "l", "i", "s", "t", "i", "n", "g", " ", "s", "c", "h", "e", "d", "u", "l", "e", "d", " ", "t", "a", "s", "k", "s", ":", " ">>,
      <<"E", "r", "r", "o", "r", " ", "c", "a", "n", "c", "e", "l", "i", "n", "g", " ", "t", "a", "s", "k", " ">>, <<"F", "a", "i", "l", "e", "d", " ", "t", "o", " ", "s", "e", "n", "d", " ", "e", "m", "a", "i", "l", ":", " ">>, <<"E", "r", "r", "o", "r", " ", "s", "e", "n", "d", "i", "n", "g", " ", "e", "m", "a", "i", "l", ":", " ">> }
SuccessMessages ==
    { <<"T", "a", "s", "k", " ", "s", "c", "h", "e", "d", "u", "l", "e", "d", " ", "f", "o", "r", " ", "t", "y", "p", "e", " ">>, <<"T", "a", "s", "k", " ">>, <<"E", "m", "a", "i", "l", " ", "s", "e", "n", "t", " ", "s", "u", "c", "c", "e", "s", "s", "f", "u", "l", "l", "y", " ", "t", "o", ":", " ">>,
      <<"N", "o", " ", "s", "c", "h", "e", "d", "u", "l", "e", "d", " ", "t", "a", "s", "k", "s", " ", "f", "o", "u", "n", "d", ".">> }
SaysFailure == ret.kind = "text" /\ \E m \in FailureMessages : StartsWith(ret.text, m)
SaysSuccess ==
    \/ ret.kind = "tasks"
    \/ ret.kind = "text" /\ \E m \in SuccessMessages : StartsWith(ret.text, m)

\* C9: a failing collaborator call never makes the tool throw and is never
\* reported as success: the tool returns a text that describes the failure,
\* and a success message only when the call succeeded.
C9_FailuresReported ==
    (pc = "done" /\ ret.collaborator # "none") =>
        /\ ret.kind # "throw"
        /\ ret.collaborator # "ok" => SaysFailure
        /\ SaysSuccess => ret.collaborator = "ok"
====
